---- MODULE Spec2Model ----
(***************************************************************************)
(* serde-gron: the gron serializer of src/src/ser.rs, driven by the        *)
(* Serialize implementation of a JSON value tree.                          *)
(*                                                                         *)
(* Text is modelled as a sequence of one-character strings, so that what   *)
(* the formatter writes, what the key conversion does and what the sink    *)
(* holds after a failed write can be compared character by character.      *)
(***************************************************************************)
EXTENDS Integers, Sequences, FiniteSets, TLC

(***************************************************************************)
(* Bounds of the model.                                                    *)
(***************************************************************************)
\* nodes of a generated value tree
MaxNodes == 3
\* serialize calls made on one Serializer
MaxCalls == 2
\* characters of a generated object key
MaxKeyLen == 2
\* integers -MaxInt..MaxInt as root numbers
MaxInt == 11

(***************************************************************************)
(* Text helpers.                                                           *)
(***************************************************************************)
IsPrefix(p, s) == Len(p) <= Len(s) /\ SubSeq(s, 1, Len(p)) = p

RECURSIVE Concat(_)
Concat(ss) == IF ss = <<>> THEN <<>> ELSE Head(ss) \o Concat(Tail(ss))

Last(s) == s[Len(s)]
Front(s) == SubSeq(s, 1, Len(s) - 1)

QUOTE == "\""
BACKSLASH == "\\"
NEWLINE == "\n"

\* character classes of RE_OBJECT_KEY
Alpha == {"a", "b", "c", "d", "e", "Z"}
Digits == {"0", "1", "2", "3", "4", "5", "6", "7", "8", "9"}
DigitChars == <<"0", "1", "2", "3", "4", "5", "6", "7", "8", "9">>

(***************************************************************************)
(* Display of numbers ("{value}" in write_number and in "[{n}]").          *)
(***************************************************************************)
RECURSIVE DisplayNat(_)
DisplayNat(n) ==
    IF n < 10 THEN <<DigitChars[n + 1]>>
    ELSE DisplayNat(n \div 10) \o <<DigitChars[(n % 10) + 1]>>

DisplayInt(i) == IF i < 0 THEN <<"-">> \o DisplayNat(-i) ELSE DisplayNat(i)

\* an f64 with one decimal digit: Display prints no fraction when it is zero
DisplayFloat(neg, whole, tenths) ==
    (IF neg THEN <<"-">> ELSE <<>>) \o DisplayNat(whole)
        \o (IF tenths = 0 THEN <<>> ELSE <<".", DigitChars[tenths + 1]>>)

(***************************************************************************)
(* The value tree (serde_json::Value) handed to the serializer.            *)
(***************************************************************************)
Null == [t |-> "null"]
Bool(b) == [t |-> "bool", b |-> b]
Num(n) == [t |-> "num", n |-> n]
Float(neg, whole, tenths) == [t |-> "float", neg |-> neg, whole |-> whole, tenths |-> tenths]
Str(s) == [t |-> "str", s |-> s]
Arr(items) == [t |-> "arr", items |-> items]
Entry(k, v) == [key |-> k, val |-> v]
Obj(entries) == [t |-> "obj", entries |-> entries]

IsScalar(v) == v.t \in {"null", "bool", "num", "float", "str"}
IsContainer(v) == v.t \in {"arr", "obj"}
Children(v) ==
    IF v.t = "arr" THEN v.items
    ELSE IF v.t = "obj" THEN [i \in 1..Len(v.entries) |-> v.entries[i].val]
    ELSE <<>>

(***************************************************************************)
(* NamespaceKey                                                            *)
(***************************************************************************)
NsArray(n) == [k |-> "Array", n |-> n]
NsObject(key) == [k |-> "Object", key |-> key]

(***************************************************************************)
(* RegularFormatter: the text of each write.                               *)
(***************************************************************************)
\* the regex without its anchors, [a-zA-Z][a-zA-Z0-9_]*: a match anywhere
RE_OBJECT_KEY_unanchored(key) == \E i \in 1..Len(key) : key[i] \in Alpha

\* RE_OBJECT_KEY.is_match(key), the regex ^[a-zA-Z][a-zA-Z0-9_]*$
RE_OBJECT_KEY(key) ==
    /\ Len(key) >= 1
    /\ key[1] \in Alpha
    /\ \A i \in 2..Len(key) : key[i] \in Alpha \cup Digits \cup {"_"}

write_key_object(key) ==
    IF RE_OBJECT_KEY(key) THEN <<".">> \o key
    ELSE <<"[", QUOTE>> \o key \o <<QUOTE, "]">>

write_key_segment(seg) ==
    IF seg.k = "Array" THEN <<"[">> \o DisplayNat(seg.n) \o <<"]">>
    ELSE write_key_object(seg.key)

\* the root name put through the key rule like a segment
write_key_root_as_key(root, nss) ==
    write_key_object(root) \o Concat([i \in 1..Len(nss) |-> write_key_segment(nss[i])])

write_key(root, nss) ==
    root \o Concat([i \in 1..Len(nss) |-> write_key_segment(nss[i])])

write_key_value_delimiter == <<" ", "=", " ">>
write_end_of_line == <<";", NEWLINE>>
write_null == <<"n", "u", "l", "l">>
write_bool(v) == IF v THEN <<"t", "r", "u", "e">> ELSE <<"f", "a", "l", "s", "e">>
write_string(v) == <<QUOTE>> \o v \o <<QUOTE>>
write_init_array == <<"[", "]">>
write_init_object == <<"{", "}">>

\* the value fragment each serialize_* method hands to the formatter
write_value(v) ==
    CASE v.t = "null" -> write_null
      [] v.t = "bool" -> write_bool(v.b)
      [] v.t = "num" -> DisplayInt(v.n)
      [] v.t = "float" -> DisplayFloat(v.neg, v.whole, v.tenths)
      [] v.t = "str" -> write_string(v.s)
      [] v.t = "arr" -> write_init_array
      [] v.t = "obj" -> write_init_object

\* whether the serialize_* method of this kind calls write_end_of_line
writes_end_of_line(v) == v.t # "bool"

(***************************************************************************)
(* SerializeMap::serialize_key: the key is serde_json::to_string(key)      *)
(* with the double quotes trimmed from both ends.                          *)
(***************************************************************************)
json_escape_char(c) ==
    CASE c = QUOTE -> <<BACKSLASH, QUOTE>>
      [] c = BACKSLASH -> <<BACKSLASH, BACKSLASH>>
      [] c = NEWLINE -> <<BACKSLASH, "n">>
      [] OTHER -> <<c>>

serde_json_to_string(key) ==
    <<QUOTE>> \o Concat([i \in 1..Len(key) |-> json_escape_char(key[i])]) \o <<QUOTE>>

RECURSIVE trim_start_matches(_, _)
trim_start_matches(s, c) ==
    IF s # <<>> /\ Head(s) = c THEN trim_start_matches(Tail(s), c) ELSE s

RECURSIVE trim_end_matches(_, _)
trim_end_matches(s, c) ==
    IF s # <<>> /\ Last(s) = c THEN trim_end_matches(Front(s), c) ELSE s

trim_matches(s, c) == trim_end_matches(trim_start_matches(s, c), c)

serialize_key(key) == NsObject(trim_matches(serde_json_to_string(key), QUOTE))

(***************************************************************************)
(* Context                                                                 *)
(***************************************************************************)
\* every node taken for the root
is_root_always(stack) == TRUE

is_root(stack) == stack = <<>>

\* the index left as it is after an element
next_index_kept(n) == n

\* SerializeSeq::serialize_element: *n += 1
next_index(n) == n + 1

(***************************************************************************)
(* The whole output of one call on a sink that never fails, composed the   *)
(* way the Serialize implementation of the value drives the serializer.    *)
(***************************************************************************)
statement(root, stack, v) ==
    write_key(root, stack) \o write_key_value_delimiter \o write_value(v)
        \o (IF writes_end_of_line(v) THEN write_end_of_line ELSE <<>>)

RECURSIVE emit(_, _, _)
emit(root, stack, v) ==
    statement(root, stack, v) \o
    ( CASE v.t = "arr" ->
             Concat([i \in 1..Len(v.items) |->
                        emit(root, Append(stack, NsArray(i - 1)), v.items[i])])
        [] v.t = "obj" ->
             Concat([i \in 1..Len(v.entries) |->
                        emit(root, Append(stack, serialize_key(v.entries[i].key)),
                             v.entries[i].val)])
        [] OTHER -> <<>> )

to_string_with(v, root) == emit(root, <<>>, v)

(***************************************************************************)
(* Inputs: root names and value trees.                                     *)
(***************************************************************************)
JSON == <<"j", "s", "o", "n">>

\* the root name of to_string and to_writer, and of Gron::new
default_root_name == JSON

\* to_string's default, the empty name, and names that are no identifiers
RootNames == {default_root_name, <<>>, <<"0", "-", "r">>, <<"a", QUOTE>>}

\* characters of generated keys: letter, digit, underscore, dash, a
\* non-ASCII letter, double quote, backslash
KeyChars == {"a", "1", "_", "-", "é", QUOTE, BACKSLASH}

RECURSIVE KeysOfLen(_)
KeysOfLen(n) ==
    IF n = 0 THEN {<<>>}
    ELSE {<<c>> \o k : c \in KeyChars, k \in KeysOfLen(n - 1)}

Keys == UNION {KeysOfLen(n) : n \in 0..MaxKeyLen}

\* keys and leaves of the generated trees
TreeKeys == {<<"a">>, <<"b">>}
Leaves == {Bool(TRUE), Num(1)}

RECURSIVE TreesOfSize(_)
RECURSIVE ItemsOfSize(_)
RECURSIVE EntriesOfSize(_)
TreesOfSize(n) ==
    IF n = 1 THEN Leaves \cup {Arr(<<>>), Obj(<<>>)}
    ELSE {Arr(items) : items \in ItemsOfSize(n - 1)}
            \cup {Obj(entries) : entries \in EntriesOfSize(n - 1)}
ItemsOfSize(m) ==
    IF m = 0 THEN {<<>>}
    ELSE UNION {{<<v>> \o rest : v \in TreesOfSize(j), rest \in ItemsOfSize(m - j)}
                    : j \in 1..m}
EntriesOfSize(m) ==
    IF m = 0 THEN {<<>>}
    ELSE UNION {{<<Entry(k, v)>> \o rest :
                    k \in TreeKeys, v \in TreesOfSize(j), rest \in EntriesOfSize(m - j)}
                    : j \in 1..m}

Trees == UNION {TreesOfSize(n) : n \in 1..MaxNodes}

\* every scalar kind as the root value
RootScalars ==
    {Null, Bool(TRUE), Bool(FALSE)}
        \cup {Num(i) : i \in (-MaxInt)..MaxInt}
        \cup {Float(FALSE, 1, 5), Float(TRUE, 0, 5), Float(FALSE, 2, 0)}
        \cup {Str(<<>>), Str(<<"a", "b", "c">>), Str(<<"a", QUOTE>>), Str(<<BACKSLASH>>)}

\* the values of the tests of src/src/lib.rs and of examples/regular.rs
Examples ==
    { Arr(<<Num(1), Num(2), Num(3)>>),
      Arr(<<Num(1), Arr(<<Num(2), Num(3)>>), Num(4)>>),
      Obj(<<Entry(<<"a">>, Num(1)), Entry(<<"b">>, Num(2)), Entry(<<"c">>, Num(3))>>),
      Obj(<<Entry(<<"a">>, Num(1)),
            Entry(<<"b">>, Obj(<<Entry(<<"c">>, Num(2)), Entry(<<"d">>, Num(3))>>)),
            Entry(<<"e">>, Num(4))>>),
      Obj(<<Entry(<<"a", "-", "b", "-", "c">>, Num(1))>>),
      Arr(<<Null, Str(<<"a">>), Float(FALSE, 1, 5), Bool(FALSE)>>),
      Obj(<<Entry(<<"a">>, Null), Entry(<<"a">>, Str(<<"b">>))>>) }

\* every generated key as a segment: alone, under an index, under an
\* identifier key, under a quoted key, and above another key
KeyCases ==
    UNION {{ Obj(<<Entry(k, Num(1))>>),
             Arr(<<Obj(<<Entry(k, Num(1))>>)>>),
             Obj(<<Entry(<<"a">>, Obj(<<Entry(k, Num(1))>>))>>),
             Obj(<<Entry(<<"-">>, Obj(<<Entry(k, Num(1))>>))>>),
             Obj(<<Entry(k, Obj(<<Entry(<<"a">>, Num(1))>>))>>) } : k \in Keys}

Values == RootScalars \cup Trees \cup Examples \cup KeyCases

\* the argument of a later call on the same Serializer
LaterValues == {Null, Arr(<<Num(1)>>)}

\* the inputs of the first call: every value under the default root name,
\* the scalars and the examples under every root name
Inputs ==
    {<<v, default_root_name>> : v \in Values}
        \cup {<<v, r>> : v \in RootScalars \cup Examples, r \in RootNames}

(***************************************************************************)
(* State.                                                                  *)
(***************************************************************************)
VARIABLES
    value,      \* the value handed to the current (or last) serialize call
    ns_root,    \* Context.ns_root
    ns,         \* Context.ns, the stack of NamespaceKey
    finish,     \* Context.finish
    writer,     \* the text the sink holds
    result,     \* "none", "running", or how the last call returned: "Ok", "Eof", "Io"
    calls,      \* serialize calls made on this Serializer
    pc,         \* the next step of the call in progress, "idle" between calls
    cur,        \* the node whose serialize_* method is running
    frames,     \* the containers being walked, outermost first, each with the
                \* position (from 1) of the child in progress
    base,       \* Len(writer) when the current call began
    log         \* the write_key calls of the current call that succeeded

vars == <<value, ns_root, ns, finish, writer, result, calls, pc, cur, frames, base, log>>

\* Serializer::new_with_root_name(writer, root_name), and the caller's value
Init ==
    /\ \E in \in Inputs : value = in[1] /\ ns_root = in[2]
    /\ ns = <<>>
    /\ finish = FALSE
    /\ writer = <<>>
    /\ result = "none"
    /\ calls = 0
    /\ pc = "idle"
    /\ cur = Null
    /\ frames = <<>>
    /\ base = 0
    /\ log = <<>>

\* where in the value the node being serialized is: child positions from the root
Pos == [i \in 1..Len(frames) |-> frames[i].i]

\* the result of a fallible step dropped instead of returned
try_ignored(failed) == FALSE

\* the `?` after a fallible step: the method returns early iff the step failed
try_returns(failed) == failed

(***************************************************************************)
(* value.serialize(&mut ser): a top-level call.  A Serializer is used      *)
(* again only after a call that returned Ok or Eof.                        *)
(***************************************************************************)
Serialize ==
    /\ pc = "idle"
    /\ calls < MaxCalls
    /\ result \in {"none", "Ok", "Eof"}
    /\ value' \in (IF calls = 0 THEN {value} ELSE LaterValues)
    /\ cur' = value'
    /\ pc' = "key"
    /\ calls' = calls + 1
    /\ result' = "running"
    /\ base' = Len(writer)
    /\ log' = <<>>
    /\ frames' = <<>>
    /\ UNCHANGED <<ns_root, ns, finish, writer>>

\* self.ctx.error_if_finished()?  at the head of every serialize_* method
error_if_finished ==
    /\ pc = "key"
    /\ finish
    /\ result' = "Eof"
    /\ pc' = "idle"
    /\ frames' = <<>>
    /\ UNCHANGED <<value, ns_root, ns, finish, writer, calls, cur, base, log>>

\* the end of a serialize_* method after its last write: a scalar marks the
\* context finished at the root; serialize_seq pushes Array(0); the
\* container is then walked by the value's Serialize implementation
Complete ==
    CASE IsScalar(cur) ->
            /\ finish' = (IF is_root(ns) THEN TRUE ELSE finish)
            /\ pc' = "ret"
            /\ UNCHANGED <<ns, frames>>
      [] cur.t = "arr" ->
            /\ ns' = Append(ns, NsArray(0))
            /\ frames' = Append(frames, [node |-> cur, i |-> 1])
            /\ pc' = "drive"
            /\ UNCHANGED finish
      [] cur.t = "obj" ->
            /\ frames' = Append(frames, [node |-> cur, i |-> 1])
            /\ pc' = "drive"
            /\ UNCHANGED <<ns, finish>>

\* a write that fell short is left to be made again from its first character
WriteAgain(frag, Then) ==
    \E n \in 0..Len(frag) :
        /\ writer' = writer \o SubSeq(frag, 1, n)
        /\ IF n < Len(frag)
           THEN UNCHANGED <<result, pc, frames, ns, finish, log>>
           ELSE Then /\ UNCHANGED result
        /\ UNCHANGED <<value, ns_root, calls, cur, base>>

\* one write!(writer, ...) of the formatter: the sink takes the first n
\* characters; with n short of the whole text the write failed
\* (map_err(Error::Io)) and `?` returns the error from the whole call
Write(frag, Then) ==
    \E n \in 0..Len(frag) :
        /\ writer' = writer \o SubSeq(frag, 1, n)
        /\ IF try_returns(n < Len(frag))
           THEN /\ result' = "Io"
                /\ pc' = "idle"
                /\ frames' = <<>>
                /\ UNCHANGED <<ns, finish, log>>
           ELSE /\ Then
                /\ UNCHANGED result
        /\ UNCHANGED <<value, ns_root, calls, cur, base>>

KeyWritten ==
    /\ log' = Append(log, [pos |-> Pos, ns |-> ns, text |-> write_key(ns_root, ns)])
    /\ pc' = "delim"
    /\ UNCHANGED <<ns, finish, frames>>

WriteKey ==
    /\ pc = "key"
    /\ ~finish
    /\ Write(write_key(ns_root, ns), KeyWritten)

DelimiterWritten ==
    /\ pc' = "val"
    /\ UNCHANGED <<ns, finish, frames, log>>

WriteDelimiter ==
    /\ pc = "delim"
    /\ Write(write_key_value_delimiter, DelimiterWritten)

ValueWritten ==
    /\ IF writes_end_of_line(cur)
       THEN pc' = "eol" /\ UNCHANGED <<ns, finish, frames>>
       ELSE Complete
    /\ UNCHANGED log

WriteValue ==
    /\ pc = "val"
    /\ Write(write_value(cur), ValueWritten)

EndOfLineWritten ==
    /\ Complete
    /\ UNCHANGED log

WriteEndOfLine ==
    /\ pc = "eol"
    /\ Write(write_end_of_line, EndOfLineWritten)

(***************************************************************************)
(* The walk of a container by the value's Serialize implementation.        *)
(***************************************************************************)
Top == Last(frames)
Bump == [frames EXCEPT ![Len(frames)].i = @ + 1]

\* SerializeSeq::serialize_element: value.serialize(&mut **self)
SerializeElement ==
    /\ pc = "drive"
    /\ Top.node.t = "arr"
    /\ Top.i <= Len(Top.node.items)
    /\ cur' = Top.node.items[Top.i]
    /\ pc' = "key"
    /\ UNCHANGED <<value, ns_root, ns, finish, writer, result, calls, frames, base, log>>

\* SerializeSeq::serialize_element after the element returned Ok: *n += 1
ElementDone ==
    /\ pc = "ret"
    /\ frames # <<>>
    /\ Top.node.t = "arr"
    /\ ns' = [ns EXCEPT ![Len(ns)] = NsArray(next_index(@.n))]
    /\ frames' = Bump
    /\ pc' = "drive"
    /\ UNCHANGED <<value, ns_root, finish, writer, result, calls, cur, base, log>>

\* the end of a sequence without the pop
SeqEndNoPop ==
    /\ pc = "drive"
    /\ Last(frames).node.t = "arr"
    /\ Last(frames).i > Len(Last(frames).node.items)
    /\ frames' = Front(frames)
    /\ pc' = "ret"
    /\ UNCHANGED <<value, ns_root, ns, finish, writer, result, calls, cur, base, log>>

\* SerializeSeq::end: self.ctx.ns.pop()
SeqEnd ==
    /\ pc = "drive"
    /\ Top.node.t = "arr"
    /\ Top.i > Len(Top.node.items)
    /\ ns' = Front(ns)
    /\ frames' = Front(frames)
    /\ pc' = "ret"
    /\ UNCHANGED <<value, ns_root, finish, writer, result, calls, cur, base, log>>

\* SerializeMap::serialize_key pushes the key; serialize_value then
\* serializes the entry's value
SerializeKey ==
    /\ pc = "drive"
    /\ Top.node.t = "obj"
    /\ Top.i <= Len(Top.node.entries)
    /\ ns' = Append(ns, serialize_key(Top.node.entries[Top.i].key))
    /\ cur' = Top.node.entries[Top.i].val
    /\ pc' = "key"
    /\ UNCHANGED <<value, ns_root, finish, writer, result, calls, frames, base, log>>

\* SerializeMap::serialize_value after the value returned Ok: self.ctx.ns.pop()
ValueDone ==
    /\ pc = "ret"
    /\ frames # <<>>
    /\ Top.node.t = "obj"
    /\ ns' = Front(ns)
    /\ frames' = Bump
    /\ pc' = "drive"
    /\ UNCHANGED <<value, ns_root, finish, writer, result, calls, cur, base, log>>

\* SerializeMap::end
MapEnd ==
    /\ pc = "drive"
    /\ Top.node.t = "obj"
    /\ Top.i > Len(Top.node.entries)
    /\ frames' = Front(frames)
    /\ pc' = "ret"
    /\ UNCHANGED <<value, ns_root, ns, finish, writer, result, calls, cur, base, log>>

\* the root value's serialize returned Ok: to_writer_with returns Ok(())
Return ==
    /\ pc = "ret"
    /\ frames = <<>>
    /\ result' = "Ok"
    /\ pc' = "idle"
    /\ UNCHANGED <<value, ns_root, ns, finish, writer, calls, cur, frames, base, log>>

Next ==
    \/ Serialize
    \/ error_if_finished
    \/ WriteKey
    \/ WriteDelimiter
    \/ WriteValue
    \/ WriteEndOfLine
    \/ SerializeElement
    \/ ElementDone
    \/ SeqEnd
    \/ SerializeKey
    \/ ValueDone
    \/ MapEnd
    \/ Return

Spec == Init /\ [][Next]_vars

\* the text the current call has written
Written == SubSeq(writer, base + 1, Len(writer))

(***************************************************************************)
(* What the specification says of the output, stated without the          *)
(* formatter's definitions.                                                *)
(***************************************************************************)
\* the rendered form of a scalar: null, true/false, the decimal numeral, the
\* raw text between double quotes
Rendered(v) ==
    CASE v.t = "null" -> <<"n", "u", "l", "l">>
      [] v.t = "bool" -> IF v.b THEN <<"t", "r", "u", "e">> ELSE <<"f", "a", "l", "s", "e">>
      [] v.t = "num" -> DisplayInt(v.n)
      [] v.t = "float" -> DisplayFloat(v.neg, v.whole, v.tenths)
      [] v.t = "str" -> <<QUOTE>> \o v.s \o <<QUOTE>>
      [] v.t = "arr" -> <<"[", "]">>
      [] v.t = "obj" -> <<"{", "}">>

\* the line `<path> = <rendered>;` with its newline
Line(path, v) == path \o <<" ", "=", " ">> \o Rendered(v) \o <<";", NEWLINE>>

AllScalar(vs) == \A i \in 1..Len(vs) : IsScalar(vs[i])

\* the first call returned Ok
FirstCallOk == calls = 1 /\ result = "Ok"

\* C1: for every scalar root value, to_string with the default root name
\* returns exactly the one line `json = <rendered>;\n`.
C1_ScalarLine ==
    (FirstCallOk /\ IsScalar(value) /\ ns_root = JSON)
        => writer = Line(JSON, value)

\* C2: for an array root of n scalar elements, the output is the line
\* `json = [];` followed by the n lines `json[i] = <rendered element i>;`
\* for i = 0..n-1 in index order.
C2_ArrayLines ==
    (FirstCallOk /\ value.t = "arr" /\ AllScalar(value.items) /\ ns_root = JSON)
        => writer = Line(JSON, value)
                \o Concat([i \in 1..Len(value.items) |->
                            Line(JSON \o <<"[">> \o DisplayNat(i - 1) \o <<"]">>,
                                 value.items[i])])

\* the newline-terminated lines of a text, and what follows the last newline
RECURSIVE Lines(_, _)
Lines(text, acc) ==
    IF text = <<>> THEN [lines |-> <<>>, rest |-> acc]
    ELSE IF Head(text) = NEWLINE
         THEN LET r == Lines(Tail(text), <<>>)
              IN  [lines |-> <<acc>> \o r.lines, rest |-> r.rest]
         ELSE Lines(Tail(text), Append(acc, Head(text)))

\* C3: for an object root of k entries with scalar values, the output has
\* exactly 1+k lines: `json = {};` first, then one line per entry, in the
\* order of the entries, a repeated key included.
C3_ObjectLines ==
    (FirstCallOk /\ value.t = "obj" /\ AllScalar(Children(value)) /\ ns_root = JSON)
        => LET out == Lines(writer, <<>>)
               k == Len(value.entries)
           IN  /\ out.rest = <<>>
               /\ Len(out.lines) = 1 + k
               /\ out.lines[1] \o <<NEWLINE>> = Line(JSON, value)
               /\ Len(log) = 1 + k
               /\ \A i \in 1..k :
                    /\ log[i + 1].pos = <<i>>
                    /\ out.lines[i + 1] \o <<NEWLINE>>
                            = Line(log[i + 1].text, value.entries[i].val)

(***************************************************************************)
(* The nodes of a value in pre-order, each named by its position: the      *)
(* child numbers (from 1) on the way down from the root.                   *)
(***************************************************************************)
RECURSIVE PreOrder(_, _)
PreOrder(v, pos) ==
    <<pos>> \o Concat([i \in 1..Len(Children(v)) |->
                          PreOrder(Children(v)[i], Append(pos, i))])

RECURSIVE NodeAt(_, _)
NodeAt(v, pos) ==
    IF pos = <<>> THEN v ELSE NodeAt(Children(v)[Head(pos)], Tail(pos))

LogTexts == [i \in 1..Len(log) |-> log[i].text]

\* the segment stack fits the position: an index one less than the child
\* number under an array, a key under an object
StackFits(stack, pos) ==
    /\ Len(stack) = Len(pos)
    /\ \A d \in 1..Len(pos) :
          LET parent == NodeAt(value, SubSeq(pos, 1, d - 1))
          IN  IF parent.t = "arr"
              THEN stack[d] = NsArray(pos[d] - 1)
              ELSE stack[d].k = "Object"

\* C4: the statements are begun in pre-order, one per node: the paths
\* written so far are those of the first nodes of the value in pre-order,
\* all of them once the call returns Ok; so the statement of a container
\* comes before every statement below it, whose path extends its path.
C4_PreOrder ==
    calls = 1 =>
        LET nodes == PreOrder(value, <<>>)
        IN  /\ Len(log) <= Len(nodes)
            /\ \A i \in 1..Len(log) :
                  /\ log[i].pos = nodes[i]
                  /\ StackFits(log[i].ns, nodes[i])
            /\ result = "Ok" => Len(log) = Len(nodes)
            /\ \A i, j \in 1..Len(log) :
                  (i # j /\ IsPrefix(log[i].pos, log[j].pos))
                      => i < j /\ IsPrefix(log[i].text, log[j].text)

NestedArray == Arr(<<Num(1), Arr(<<Num(2), Num(3)>>), Num(4)>>)

\* [1,[2,3],4] has been serialized: json, json[0], json[1], json[1][0],
\* json[1][1], json[2]
C4_Witness ==
    /\ FirstCallOk
    /\ value = NestedArray
    /\ LogTexts = << JSON,
                     JSON \o <<"[", "0", "]">>,
                     JSON \o <<"[", "1", "]">>,
                     JSON \o <<"[", "1", "]", "[", "0", "]">>,
                     JSON \o <<"[", "1", "]", "[", "1", "]">>,
                     JSON \o <<"[", "2", "]">> >>

(***************************************************************************)
(* Path rendering.                                                         *)
(***************************************************************************)
Letters == Alpha
IdentifierChars == Letters \cup Digits \cup {"_"}

Bracketed(key) == <<"[", QUOTE>> \o key \o <<QUOTE, "]">>
Dotted(key) == <<".">> \o key

\* a segment on its own
SegmentText(seg) ==
    IF seg.k = "Array" THEN <<"[">> \o DisplayNat(seg.n) \o <<"]">>
    ELSE IF /\ seg.key # <<>>
            /\ Head(seg.key) \in Letters
            /\ \A i \in 1..Len(seg.key) : seg.key[i] \in IdentifierChars
         THEN Dotted(seg.key)
         ELSE Bracketed(seg.key)

\* the keys the specification lists as never dotted
NeverDotted(key) ==
    \/ key = <<>>
    \/ Head(key) \in Digits \cup {"_"}
    \/ \E i \in 1..Len(key) : key[i] \in {"-", "é"}

\* C5: a written path is the root name followed by each segment rendered on
\* its own: [n] for an index, .key for an identifier key, ["key"] for every
\* other key (empty, leading digit or underscore, with a dash or a
\* non-ASCII letter).
C5_PathRendering ==
    \A i \in 1..Len(log) :
        LET e == log[i]
        IN  /\ e.text = ns_root \o Concat([d \in 1..Len(e.ns) |-> SegmentText(e.ns[d])])
            /\ \A d \in 1..Len(e.ns) :
                  (e.ns[d].k = "Object" /\ NeverDotted(e.ns[d].key))
                      => e.text = write_key(ns_root, SubSeq(e.ns, 1, d - 1))
                                    \o Bracketed(e.ns[d].key)
                                    \o Concat([x \in 1..(Len(e.ns) - d) |-> SegmentText(e.ns[d + x])])

\* json.a["_a"] has been written: an identifier key next to a quoted one
C5_Witness ==
    \E i \in 1..Len(log) :
        /\ log[i].ns = <<NsObject(<<"a">>), NsObject(<<"_", "a">>)>>
        /\ log[i].text = JSON \o <<".", "a", "[", QUOTE, "_", "a", QUOTE, "]">>

(***************************************************************************)
(* Reuse of a Serializer.                                                  *)
(***************************************************************************)
\* C6: a serialize call on a Serializer that has already completed a
\* top-level serialization, of a scalar or of a container, writes nothing
\* and returns Error::Eof.
C6_ReuseGuard ==
    calls >= 2 =>
        /\ Written = <<>>
        /\ pc = "idle" => result = "Eof"

(***************************************************************************)
(* Keys.                                                                   *)
(***************************************************************************)
\* the path of a position with every key of the value taken as it is
RECURSIVE RawSegments(_, _)
RawSegments(v, pos) ==
    IF pos = <<>> THEN <<>>
    ELSE LET i == Head(pos)
         IN  (IF v.t = "arr" THEN SegmentText(NsArray(i - 1))
              ELSE SegmentText(NsObject(v.entries[i].key)))
                 \o RawSegments(Children(v)[i], Tail(pos))

\* C7: the key text in a written path is exactly the characters of the
\* object's key, a double quote or a backslash in it included.
C7_KeyVerbatim ==
    calls = 1 =>
        \A i \in 1..Len(log) :
            log[i].text = ns_root \o RawSegments(value, log[i].pos)

(***************************************************************************)
(* The root name.                                                          *)
(***************************************************************************)
\* C8: the root name is the first component of every written path, as it
\* was given, and the path of the root value is the root name alone; no
\* root name makes the call fail: a first call ends Ok or with an IO error.
C8_RootVerbatim ==
    /\ \A i \in 1..Len(log) :
          /\ IsPrefix(ns_root, log[i].text)
          /\ log[i].pos = <<>> => log[i].text = ns_root
    /\ (calls = 1 /\ pc = "idle") => result \in {"Ok", "Io"}
    /\ FirstCallOk => IsPrefix(ns_root \o <<" ", "=", " ">>, writer)

\* a value has been serialized under the root name 0-r
C8_Witness ==
    /\ FirstCallOk
    /\ ns_root = <<"0", "-", "r">>
    /\ value = NestedArray
    /\ LogTexts[4] = <<"0", "-", "r", "[", "1", "]", "[", "0", "]">>

(***************************************************************************)
(* A sink that fails.                                                      *)
(***************************************************************************)
\* C9: what a call has put in the sink is at every moment a prefix of the
\* output of the same call on a sink that never fails: all of it when the
\* call returns Ok, and not all of it when a write failed, at which the
\* call has returned Error::Io and writes no more.
C9_IoFailure ==
    calls >= 1 =>
        LET full == to_string_with(value, ns_root)
        IN  /\ IsPrefix(Written, full)
            /\ result = "Ok" => Written = full
            /\ result = "Io" => pc = "idle" /\ Written # full

\* a write failed after two statements had been begun
C9_Witness ==
    /\ result = "Io"
    /\ value = NestedArray
    /\ Len(log) = 3
    /\ Written # <<>>

\* the stack the serializer holds while it serializes the node at a position
RECURSIVE StackAt(_, _)
StackAt(v, pos) ==
    IF pos = <<>> THEN <<>>
    ELSE LET i == Head(pos)
         IN  <<IF v.t = "arr" THEN NsArray(i - 1) ELSE serialize_key(v.entries[i].key)>>
                 \o StackAt(Children(v)[i], Tail(pos))

\* the statements of a call, one per node in pre-order, as the serializer
\* writes them
Statements(root, v) ==
    LET nodes == PreOrder(v, <<>>)
    IN  [i \in 1..Len(nodes) |->
            statement(root, StackAt(v, nodes[i]), NodeAt(v, nodes[i]))]

\* the statements `<path> = <value>;\n` of a call, one per node in pre-order
WholeStatements(root, v) ==
    LET nodes == PreOrder(v, <<>>)
    IN  [i \in 1..Len(nodes) |->
            Line(write_key(root, StackAt(v, nodes[i])), NodeAt(v, nodes[i]))]

\* C10 as stated: after any call, successful or failed, the sink holds a
\* sequence of whole statements `<path> = <value>;\n`.
C10_Atomic ==
    (calls >= 1 /\ pc = "idle") =>
        LET stmts == WholeStatements(ns_root, value)
        IN  \E k \in 0..Len(stmts) : Written = Concat(SubSeq(stmts, 1, k))

\* C10 as amended: a statement is written by separate writes, so what a
\* call has put in the sink is the statements of the nodes already
\* serialized followed by a part, possibly empty and never the whole, of
\* the statement of the next node.
C10_Fragments ==
    calls >= 1 =>
        LET stmts == Statements(ns_root, value)
        IN  \E k \in {Len(log) - 1, Len(log)} \cap 0..Len(stmts) :
                LET whole == Concat(SubSeq(stmts, 1, k))
                    part == SubSeq(Written, Len(whole) + 1, Len(Written))
                IN  /\ IsPrefix(whole, Written)
                    /\ \/ part = <<>>
                       \/ /\ k < Len(stmts)
                          /\ IsPrefix(part, stmts[k + 1])
                          /\ part # stmts[k + 1]

\* a write failed within the delimiter of the third statement: the sink
\* ends with the path and a part of ` = `
C10_Witness ==
    /\ result = "Io"
    /\ value = NestedArray
    /\ Len(log) = 3
    /\ Written = Concat(SubSeq(Statements(ns_root, value), 1, 2))
                    \o log[3].text \o <<" ", "=">>

(***************************************************************************)
(* The finished flag.                                                      *)
(***************************************************************************)
\* C11: a scalar sets the finished flag exactly when the stack is empty as
\* it is emitted: during the first call the flag is set once the root
\* scalar's statement is complete and at no other moment, so a scalar
\* inside a container leaves it unset; whenever the flag is set the stack
\* is empty, and no node of the first call is rejected with Error::Eof.
C11_FinishAtRoot ==
    /\ finish => ns = <<>>
    /\ calls = 1 =>
          /\ result # "Eof"
          /\ finish <=> (IsScalar(value) /\ (pc = "ret" \/ result = "Ok"))

\* [1, 2, 3] has been serialized to its end: three scalars were emitted
\* under the array and none of them set the flag
C11_Witness ==
    /\ FirstCallOk
    /\ value = Arr(<<Num(1), Num(2), Num(3)>>)
    /\ Len(log) = 4
    /\ \A i \in 2..4 : log[i].ns # <<>>
    /\ ~finish

====
